---- MODULE Spec2Model ----
(***************************************************************************)
(* Model of src/src/html_text.py: the HtmlText tag-stack parser callbacks  *)
(* (parse_document, handle_starttag, handle_endtag, handle_data) and the   *)
(* static text functions remove_extra_characters and                      *)
(* find_most_frequent_words.                                               *)
(*                                                                         *)
(* A text is a sequence of one-character strings.  A frame of the tag      *)
(* stack is the pair <<tag name, hidden>>, as in the source.               *)
(***************************************************************************)
EXTENDS Integers, Sequences, FiniteSets

VARIABLES
    pc,            \* position: "init", "feeding", "done", "raised" (parser),
                   \* "text_in", "text_out", "rank_in", "rank_out" (static functions)
    _tags,         \* HtmlText._tags
    parsed_text,   \* HtmlText.parsed_text
    events,        \* history: the events fed since the last parse_document
    log,           \* history: per handle_data call, the stack seen and the data
    opened,        \* history: start-tags still open, each with the stack before it
    mark,          \* history: the stack before the element closed last
    closed,        \* history: the last tag event closed the most recent open tag
    wn,            \* history: every end-tag of this parse named the most recent open tag
    parses,        \* number of parse_document calls so far
    nev,           \* number of events fed so far, over all parses
    dirty,         \* history: the last parse_document found frames and text left over
    text,          \* argument of remove_extra_characters and of tokenize
    result,        \* return value of remove_extra_characters
    tokens,        \* return value of tokenize
    words,         \* argument of find_most_frequent_words
    max_,          \* argument of find_most_frequent_words
    ranking,       \* return value of find_most_frequent_words
    pending,       \* events of the document that feed() has not dispatched yet
    iters,         \* pop() calls made by the running handle_endtag call
    depth0         \* length of _tags when the running handle_endtag call began

parserVars == <<_tags, parsed_text, events, log, opened, mark, closed, wn, parses, nev, dirty>>
textVars == <<text, result>>
tokVars == <<tokens>>
rankVars == <<words, max_, ranking>>
feedVars == <<pending, iters, depth0>>

vars == <<pc, parserVars, textVars, tokVars, rankVars, feedVars>>

----------------------------------------------------------------------------
(* Bounds *)

MaxEvents == 5     \* events fed, over all parses
MaxParses == 2     \* parse_document calls
MaxPieces == 3     \* pieces an input text is put together from
MaxWords == 4      \* length of a token list
MaxBelow == 2      \* max_ ranges over -MaxBelow .. MaxAbove
MaxAbove == 5
MaxChars == 5      \* length of a text given to tokenize
MaxRunEvents == 3  \* events of a document that run goes on to process
MaxPending == 4    \* events of a document fed step by step

----------------------------------------------------------------------------
(* Helpers *)

Last(s) == s[Len(s)]
Front(s) == SubSeq(s, 1, Len(s) - 1)
Range(s) == {s[i] : i \in 1..Len(s)}

----------------------------------------------------------------------------
(* Tag stack and the parser callbacks *)

TAGS_TO_EXCLUDE ==
    {"!--", "audio", "canvas", "iframe", "noscript", "script", "source",
     "style", "title", "video"}

Sentinel == <<"", FALSE>>

\* Inputs of the callbacks: tag names as html.parser delivers them (never
\* empty), attribute lists of (name, value) pairs, and text data.
TagNames == {"p", "video"}
AttrLists ==
    { <<>>,
      << <<"class", "hidden">> >>,
      << <<"class", "hidden">>, <<"hidden", "false">> >> }
DataTexts == { <<"t">>, <<"u", "v">> }

\* Variant: 'hidden' is looked for in the names and in the values.
IsHidden_AnyField(attrs) ==
    "hidden" \in {attrs[i][1] : i \in 1..Len(attrs)} \cup {attrs[i][2] : i \in 1..Len(attrs)}

\* hidden = True if 'hidden' in [attr[0] for attr in attrs] else False
IsHidden(attrs) == "hidden" \in {attrs[i][1] : i \in 1..Len(attrs)}

handle_starttag(stack, tag, attrs) == Append(stack, <<tag, IsHidden(attrs)>>)

\* Variant: the frames above the match are popped, the match itself stays.
RECURSIVE handle_endtag_KeepsMatch(_, _)
handle_endtag_KeepsMatch(stack, tag) ==
    IF stack = <<>>
    THEN [stack |-> <<>>, raised |-> TRUE]
    ELSE IF Last(stack)[1] = tag
         THEN [stack |-> stack, raised |-> FALSE]
         ELSE handle_endtag_KeepsMatch(Front(stack), tag)

\* Variant: cuts the stack at the lowest frame named tag, not the topmost one.
handle_endtag_Lowest(stack, tag) ==
    IF \E i \in 1..Len(stack) : stack[i][1] = tag
    THEN LET i == CHOOSE k \in 1..Len(stack) :
                      /\ stack[k][1] = tag
                      /\ \A j \in 1..k - 1 : stack[j][1] # tag
         IN [stack |-> SubSeq(stack, 1, i - 1), raised |-> FALSE]
    ELSE [stack |-> <<>>, raised |-> TRUE]

\* while tag != self._tags.pop()[0]: pass
\* list.pop() on the empty list raises IndexError.
RECURSIVE handle_endtag(_, _)
handle_endtag(stack, tag) ==
    IF stack = <<>>
    THEN [stack |-> <<>>, raised |-> TRUE]
    ELSE IF Last(stack)[1] = tag
         THEN [stack |-> Front(stack), raised |-> FALSE]
         ELSE handle_endtag(Front(stack), tag)

IsVisible(frame) == frame[1] \notin TAGS_TO_EXCLUDE /\ frame[2] = FALSE

\* Variant: the new data is put in front of the text.
handle_data_Prepends(stack, acc, raw_text) ==
    IF IsVisible(Last(stack)) THEN raw_text \o acc ELSE acc

\* Variant: looks at the tag name only, not at the hidden flag.
handle_data_IgnoresHidden(stack, acc, raw_text) ==
    IF Last(stack)[1] \notin TAGS_TO_EXCLUDE THEN acc \o raw_text ELSE acc

handle_data(stack, acc, raw_text) ==
    IF IsVisible(Last(stack)) THEN acc \o raw_text ELSE acc

\* __init__: self._tags = [("", False)]; self.parsed_text = ""
InitTags == <<Sentinel>>
InitText == <<>>

\* parse_document: self._tags = [("", False)]; self.parsed_text = ""
\* Variant: the text of the previous parse is kept.
ResetText_Kept == parsed_text

ResetTags == <<Sentinel>>
ResetText == <<>>

----------------------------------------------------------------------------
(* Actions of the parser.  feed() calls one callback per event of the      *)
(* document; an exception raised by a callback ends the feed.              *)

Feeding == pc = "feeding" /\ nev < MaxEvents

parse_document ==
    /\ pc \in {"init", "done", "raised"}
    /\ parses < MaxParses
    /\ pc' = "feeding"
    /\ _tags' = ResetTags
    /\ parsed_text' = ResetText
    /\ events' = <<>>
    /\ log' = <<>>
    /\ opened' = <<>>
    /\ mark' = <<>>
    /\ closed' = FALSE
    /\ wn' = TRUE
    /\ parses' = parses + 1
    /\ dirty' = (Len(_tags) > 1 /\ parsed_text # <<>>)
    /\ UNCHANGED <<nev, textVars, tokVars, rankVars, feedVars>>

StartTag(tag, attrs) ==
    /\ Feeding
    /\ _tags' = handle_starttag(_tags, tag, attrs)
    /\ events' = Append(events, <<"start", tag, attrs>>)
    /\ opened' = Append(opened, [tag |-> tag, before |-> _tags])
    /\ closed' = FALSE
    /\ nev' = nev + 1
    /\ UNCHANGED <<pc, parsed_text, log, mark, wn, parses, dirty, textVars, tokVars, rankVars, feedVars>>

EndTag(tag) ==
    /\ Feeding
    /\ LET r == handle_endtag(_tags, tag)
           nested == opened # <<>> /\ Last(opened).tag = tag
       IN /\ _tags' = r.stack
          /\ pc' = IF r.raised THEN "raised" ELSE pc
          /\ opened' = IF nested THEN Front(opened) ELSE <<>>
          /\ mark' = IF nested THEN Last(opened).before ELSE <<>>
          /\ closed' = nested
          /\ wn' = (wn /\ nested)
    /\ events' = Append(events, <<"end", tag>>)
    /\ nev' = nev + 1
    /\ UNCHANGED <<parsed_text, log, parses, dirty, textVars, tokVars, rankVars, feedVars>>

Data(raw_text) ==
    /\ Feeding
    /\ parsed_text' = handle_data(_tags, parsed_text, raw_text)
    /\ events' = Append(events, <<"data", raw_text>>)
    /\ log' = Append(log, [stack |-> _tags, data |-> raw_text])
    /\ nev' = nev + 1
    /\ UNCHANGED <<pc, _tags, opened, mark, closed, wn, parses, dirty, textVars, tokVars, rankVars, feedVars>>

\* feed() returns: the document is exhausted
FeedEnd ==
    /\ pc = "feeding"
    /\ pc' = "done"
    /\ UNCHANGED <<parserVars, textVars, tokVars, rankVars, feedVars>>

Init ==
    /\ pc = "init"
    /\ _tags = InitTags
    /\ parsed_text = InitText
    /\ events = <<>>
    /\ log = <<>>
    /\ opened = <<>>
    /\ mark = <<>>
    /\ closed = FALSE
    /\ wn = TRUE
    /\ parses = 0
    /\ nev = 0
    /\ dirty = FALSE
    /\ text = <<>>
    /\ result = <<>>
    /\ words = <<>>
    /\ max_ = 0
    /\ ranking = <<>>
    /\ tokens = <<>>
    /\ pending = <<>> /\ iters = 0 /\ depth0 = 0

Next ==
    \/ parse_document
    \/ \E tag \in TagNames, attrs \in AttrLists : StartTag(tag, attrs)
    \/ \E tag \in TagNames : EndTag(tag)
    \/ \E raw_text \in DataTexts : Data(raw_text)
    \/ FeedEnd

Spec == Init /\ [][Next]_vars

----------------------------------------------------------------------------
(* remove_extra_characters *)

NBSP == <<"&", "n", "b", "s", "p", ";">>

\* str.replace(old, new): every non-overlapping occurrence, left to right
RECURSIVE Replace(_, _, _)
Replace(t, old, new) ==
    IF Len(t) < Len(old) THEN t
    ELSE IF SubSeq(t, 1, Len(old)) = old
         THEN new \o Replace(SubSeq(t, Len(old) + 1, Len(t)), old, new)
         ELSE <<Head(t)>> \o Replace(Tail(t), old, new)

\* for symbol in symbols: text = text.replace(symbol, new)
RECURSIVE ReplaceEach(_, _, _)
ReplaceEach(t, symbols, new) ==
    IF symbols = <<>> THEN t
    ELSE ReplaceEach(Replace(t, Head(symbols), new), Tail(symbols), new)

\* Variant: the apostrophe is missing from the symbols to remove.
symbols_to_remove_NbspOnly == << NBSP >>

symbols_to_remove == << NBSP, <<"'">> >>

\* Variant: the semicolon is missing from the symbols to replace.
symbols_to_replace_NoSemicolon ==
    << <<"?">>, <<"!">>, <<":">>, <<"-">>, <<"[">>, <<"]">>, <<"{">>,
       <<"}">>, <<"(">>, <<")">>, <<"'">>, <<"\"">>, <<".", ".", ".">>,
       <<"\n">>, <<"\t">> >>

symbols_to_replace ==
    << <<"?">>, <<"!">>, <<":">>, <<";">>, <<"-">>, <<"[">>, <<"]">>, <<"{">>,
       <<"}">>, <<"(">>, <<")">>, <<"'">>, <<"\"">>, <<".", ".", ".">>,
       <<"\n">>, <<"\t">> >>

IsDigit(c) == c \in {"0", "1", "2", "3", "4", "5", "6", "7", "8", "9"}

\* nan_pattern = r'((?<!\d))[.,]((?!\d))': a period or comma with no digit
\* right before it and no digit right after it
NanMatch(t, i) ==
    /\ t[i] \in {".", ","}
    /\ ~(i > 1 /\ IsDigit(t[i - 1]))
    /\ ~(i < Len(t) /\ IsDigit(t[i + 1]))

\* re.sub(nan_pattern, r'\1 \2', text): both groups are empty
SubNan(t) == [i \in 1..Len(t) |-> IF NanMatch(t, i) THEN " " ELSE t[i]]

remove_extra_characters(t) ==
    SubNan(ReplaceEach(ReplaceEach(t, symbols_to_remove, <<>>),
                       symbols_to_replace, <<" ">>))

\* Input texts: up to MaxPieces pieces put one after another.
Pieces ==
    { <<"a">>, <<"1">>, <<" ">>, <<".">>, <<",">>, <<".", ".">>, <<"'">>,
      <<"?">>, <<"!">>, <<":">>, <<";">>, <<"-">>, <<"[">>, <<"]">>, <<"{">>,
      <<"}">>, <<"(">>, <<")">>, <<"\"">>, <<"\n">>, <<"\t">>,
      NBSP, <<"&", "n", "b", "s">>, <<"p", ";">> }

RECURSIVE PieceTexts(_)
PieceTexts(n) ==
    IF n = 0 THEN {<<>>}
    ELSE LET S == PieceTexts(n - 1) IN S \cup {p \o t : p \in Pieces, t \in S}

RemoveExtraCharacters ==
    /\ pc = "text_in"
    /\ result' = remove_extra_characters(text)
    /\ pc' = "text_out"
    /\ UNCHANGED <<text, parserVars, tokVars, rankVars, feedVars>>

TextInit ==
    /\ pc = "text_in"
    /\ text \in PieceTexts(MaxPieces)
    /\ result = <<>>
    /\ _tags = InitTags /\ parsed_text = InitText
    /\ events = <<>> /\ log = <<>> /\ opened = <<>> /\ mark = <<>>
    /\ closed = FALSE /\ wn = TRUE /\ parses = 0 /\ nev = 0 /\ dirty = FALSE
    /\ words = <<>> /\ max_ = 0 /\ ranking = <<>>
    /\ tokens = <<>>
    /\ pending = <<>> /\ iters = 0 /\ depth0 = 0

TextNext == RemoveExtraCharacters

SpecText == TextInit /\ [][TextNext]_vars

----------------------------------------------------------------------------
(* tokenize *)

\* str.split() with no argument splits at runs of whitespace
IsSpace(c) == c \in {" ", "\t", "\n", "\r"}

RECURSIVE SplitFrom(_, _)
SplitFrom(t, word) ==
    IF t = <<>> THEN (IF word = <<>> THEN <<>> ELSE <<word>>)
    ELSE IF IsSpace(Head(t))
         THEN (IF word = <<>> THEN <<>> ELSE <<word>>) \o SplitFrom(Tail(t), <<>>)
         ELSE SplitFrom(Tail(t), Append(word, Head(t)))

\* Variant: text.split(' '), which cuts at every single blank and so
\* returns empty words, [''] for the empty text.
RECURSIVE SplitAtEachBlank(_, _)
SplitAtEachBlank(t, word) ==
    IF t = <<>> THEN <<word>>
    ELSE IF IsSpace(Head(t)) THEN <<word>> \o SplitAtEachBlank(Tail(t), <<>>)
         ELSE SplitAtEachBlank(Tail(t), Append(word, Head(t)))

Split_AtEachBlank(t) == SplitAtEachBlank(t, <<>>)

Split(t) == SplitFrom(t, <<>>)

UpperLetters ==
    <<"A", "B", "C", "D", "E", "F", "G", "H", "I", "J", "K", "L", "M",
      "N", "O", "P", "Q", "R", "S", "T", "U", "V", "W", "X", "Y", "Z">>
LowerLetters ==
    <<"a", "b", "c", "d", "e", "f", "g", "h", "i", "j", "k", "l", "m",
      "n", "o", "p", "q", "r", "s", "t", "u", "v", "w", "x", "y", "z">>

\* str.lower()
LowerChar(c) ==
    IF \E i \in 1..Len(UpperLetters) : UpperLetters[i] = c
    THEN LowerLetters[CHOOSE i \in 1..Len(UpperLetters) : UpperLetters[i] = c]
    ELSE c

lower(word) == [i \in 1..Len(word) |-> LowerChar(word[i])]

\* Variant: the words are returned as split, not lowercased.
tokenize_NotLowered(t) == Split(t)

\* words = text.split(); words = [word.lower() for word in words]
tokenize(t) == LET ws == Split(t) IN [i \in 1..Len(ws) |-> lower(ws[i])]

TokenizeChars == {"a", "A", "1", " ", "\n", "\t"}

RECURSIVE CharTexts(_)
CharTexts(n) ==
    IF n = 0 THEN {<<>>}
    ELSE LET S == CharTexts(n - 1) IN S \cup {<<c>> \o t : c \in TokenizeChars, t \in S}

Tokenize ==
    /\ pc = "tok_in"
    /\ tokens' = tokenize(text)
    /\ pc' = "tok_out"
    /\ UNCHANGED <<parserVars, textVars, rankVars, feedVars>>

TokInit ==
    /\ pc = "tok_in"
    /\ text \in CharTexts(MaxChars)
    /\ tokens = <<>>
    /\ result = <<>>
    /\ _tags = InitTags /\ parsed_text = InitText
    /\ events = <<>> /\ log = <<>> /\ opened = <<>> /\ mark = <<>>
    /\ closed = FALSE /\ wn = TRUE /\ parses = 0 /\ nev = 0 /\ dirty = FALSE
    /\ words = <<>> /\ max_ = 0 /\ ranking = <<>>
    /\ pending = <<>> /\ iters = 0 /\ depth0 = 0

TokNext == Tokenize

SpecTok == TokInit /\ [][TokNext]_vars

----------------------------------------------------------------------------
(* find_most_frequent_words *)

CodePoint(c) ==
    CASE c = "$" -> 36 [] c = "Z" -> 90 [] c = "a" -> 97 [] c = "b" -> 98

\* str < str: by code point, a proper prefix first
RECURSIVE StrLess(_, _)
StrLess(u, v) ==
    IF v = <<>> THEN FALSE
    ELSE IF u = <<>> THEN TRUE
    ELSE IF Head(u) = Head(v) THEN StrLess(Tail(u), Tail(v))
    ELSE CodePoint(Head(u)) < CodePoint(Head(v))

\* words.count(word)
Count(ws, w) == Cardinality({i \in 1..Len(ws) : ws[i] = w})

\* {word: words.count(word) for word in set(words)}, as its items
word_frequency(ws) == {<<w, Count(ws, w)>> : w \in Range(ws)}

\* Variant: equal counts in falling word order.
KeyLess_WordDescending(a, b) ==
    a[2] > b[2] \/ (a[2] = b[2] /\ StrLess(b[1], a[1]))

\* key=lambda item: (-item[1], item[0])
KeyLess(a, b) == a[2] > b[2] \/ (a[2] = b[2] /\ StrLess(a[1], b[1]))

\* sorted(items, key=...): no two items have the same key
RECURSIVE Sorted(_)
Sorted(items) ==
    IF items = {} THEN <<>>
    ELSE LET m == CHOOSE x \in items : \A y \in items \ {x} : KeyLess(x, y)
         IN <<m>> \o Sorted(items \ {m})

Min(a, b) == IF a < b THEN a ELSE b
Max(a, b) == IF a > b THEN a ELSE b

\* Variant: the slice is one entry too long.
SliceTo_OneMore(s, k) ==
    IF k >= 0 THEN SubSeq(s, 1, Min(k + 1, Len(s)))
    ELSE SubSeq(s, 1, Max(Len(s) + k, 0))

\* s[:k], k negative counting from the end
SliceTo(s, k) ==
    IF k >= 0 THEN SubSeq(s, 1, Min(k, Len(s)))
    ELSE SubSeq(s, 1, Max(Len(s) + k, 0))

\* Variant: the dict is built from the list in order of first appearance and
\* the stable sort looks at the count alone.
RECURSIVE FirstSeen(_)
FirstSeen(ws) ==
    IF ws = <<>> THEN <<>>
    ELSE LET rest == FirstSeen(Front(ws))
         IN IF \E i \in 1..Len(rest) : rest[i] = Last(ws)
            THEN rest ELSE Append(rest, Last(ws))

RECURSIVE StableByCount(_, _, _)
StableByCount(ws, order, c) ==
    IF c = 0 THEN <<>>
    ELSE LET IsC(w) == Count(ws, w) = c
             at == SelectSeq(order, IsC)
         IN [i \in 1..Len(at) |-> <<at[i], c>>] \o StableByCount(ws, order, c - 1)

find_most_frequent_words_FirstSeen(ws, m) ==
    LET sorted_frequency == StableByCount(ws, FirstSeen(ws), Len(ws))
    IN SliceTo(sorted_frequency, Min(m, Len(sorted_frequency)))

find_most_frequent_words(ws, m) ==
    LET sorted_frequency == Sorted(word_frequency(ws))
    IN SliceTo(sorted_frequency, Min(m, Len(sorted_frequency)))

Tokens ==
    { <<>>, <<"a">>, <<"b">>, <<"Z">>, <<"$">>, <<"a", "b">>, <<"a", "Z">> }

RECURSIVE TokenLists(_)
TokenLists(n) ==
    IF n = 0 THEN {<<>>}
    ELSE LET S == TokenLists(n - 1) IN S \cup {<<w>> \o ws : w \in Tokens, ws \in S}

FindMostFrequentWords ==
    /\ pc = "rank_in"
    /\ ranking' = find_most_frequent_words(words, max_)
    /\ pc' = "rank_out"
    /\ UNCHANGED <<words, max_, parserVars, textVars, tokVars, feedVars>>

RankInit ==
    /\ pc = "rank_in"
    /\ words \in TokenLists(MaxWords)
    /\ max_ \in (0 - MaxBelow)..MaxAbove
    /\ ranking = <<>>
    /\ _tags = InitTags /\ parsed_text = InitText
    /\ events = <<>> /\ log = <<>> /\ opened = <<>> /\ mark = <<>>
    /\ closed = FALSE /\ wn = TRUE /\ parses = 0 /\ nev = 0 /\ dirty = FALSE
    /\ text = <<>> /\ result = <<>>
    /\ tokens = <<>>
    /\ pending = <<>> /\ iters = 0 /\ depth0 = 0

RankNext == FindMostFrequentWords

SpecRank == RankInit /\ [][RankNext]_vars

----------------------------------------------------------------------------
(* run: parse_document, then remove_extra_characters on parsed_text, then  *)
(* tokenize, then find_most_frequent_words with max_ = 10                  *)

RunMax == 10

RunRemove ==
    /\ pc = "done"
    /\ nev <= MaxRunEvents
    /\ text' = parsed_text
    /\ result' = remove_extra_characters(parsed_text)
    /\ pc' = "run_text"
    /\ UNCHANGED <<parserVars, tokVars, rankVars, feedVars>>

RunTokenize ==
    /\ pc = "run_text"
    /\ tokens' = tokenize(result)
    /\ pc' = "run_words"
    /\ UNCHANGED <<parserVars, textVars, rankVars, feedVars>>

RunRank ==
    /\ pc = "run_words"
    /\ words' = tokens
    /\ max_' = RunMax
    /\ ranking' = find_most_frequent_words(tokens, RunMax)
    /\ pc' = "run_done"
    /\ UNCHANGED <<parserVars, textVars, tokVars, feedVars>>

RunNext ==
    \/ Next
    \/ RunRemove
    \/ RunTokenize
    \/ RunRank

SpecRun == Init /\ [][RunNext]_vars

----------------------------------------------------------------------------
(* One parse, step by step: feed() dispatches the events of the document   *)
(* in order, and the loop of handle_endtag makes one pop() per step.       *)

FeedEvents ==
    {<<"start", tag, attrs>> : tag \in TagNames, attrs \in AttrLists}
    \cup {<<"end", tag>> : tag \in TagNames}
    \cup {<<"data", raw_text>> : raw_text \in DataTexts}

RECURSIVE EventLists(_)
EventLists(n) ==
    IF n = 0 THEN {<<>>}
    ELSE LET S == EventLists(n - 1) IN S \cup {<<e>> \o t : e \in FeedEvents, t \in S}

\* Variant: the top frame is read and left on the stack.
pop_Peek(stack) == stack

\* self._tags.pop() on a non-empty list: the list without its last frame
pop(stack) == Front(stack)

FeedStartTag ==
    /\ pc = "feed_next"
    /\ pending # <<>> /\ Head(pending)[1] = "start"
    /\ _tags' = handle_starttag(_tags, Head(pending)[2], Head(pending)[3])
    /\ pending' = Tail(pending)
    /\ UNCHANGED <<pc, parsed_text, events, log, opened, mark, closed, wn, parses, nev,
                   dirty, textVars, tokVars, rankVars, iters, depth0>>

FeedData ==
    /\ pc = "feed_next"
    /\ pending # <<>> /\ Head(pending)[1] = "data"
    /\ parsed_text' = handle_data(_tags, parsed_text, Head(pending)[2])
    /\ pending' = Tail(pending)
    /\ UNCHANGED <<pc, _tags, events, log, opened, mark, closed, wn, parses, nev,
                   dirty, textVars, tokVars, rankVars, iters, depth0>>

\* handle_endtag is entered; no pop() has been made yet
FeedEndTag ==
    /\ pc = "feed_next"
    /\ pending # <<>> /\ Head(pending)[1] = "end"
    /\ pc' = "popping"
    /\ iters' = 0
    /\ depth0' = Len(_tags)
    /\ UNCHANGED <<parserVars, textVars, tokVars, rankVars, pending>>

\* the popped frame has the tag's name: the loop ends, the callback returns
PopMatch ==
    /\ pc = "popping"
    /\ _tags # <<>> /\ Last(_tags)[1] = Head(pending)[2]
    /\ _tags' = pop(_tags)
    /\ iters' = iters + 1
    /\ pending' = Tail(pending)
    /\ pc' = "feed_next"
    /\ UNCHANGED <<parsed_text, events, log, opened, mark, closed, wn, parses, nev,
                   dirty, textVars, tokVars, rankVars, depth0>>

\* the popped frame has another name: the loop goes round again
PopMiss ==
    /\ pc = "popping"
    /\ _tags # <<>> /\ Last(_tags)[1] # Head(pending)[2]
    /\ _tags' = pop(_tags)
    /\ iters' = iters + 1
    /\ UNCHANGED <<pc, parsed_text, events, log, opened, mark, closed, wn, parses, nev,
                   dirty, textVars, tokVars, rankVars, pending, depth0>>

\* pop() on the empty list raises IndexError, which ends the feed
PopEmpty ==
    /\ pc = "popping"
    /\ _tags = <<>>
    /\ pc' = "feed_raised"
    /\ UNCHANGED <<parserVars, textVars, tokVars, rankVars, feedVars>>

\* feed() returns: every event has been dispatched
FeedFinish ==
    /\ pc = "feed_next"
    /\ pending = <<>>
    /\ pc' = "feed_done"
    /\ UNCHANGED <<parserVars, textVars, tokVars, rankVars, feedVars>>

\* The state parse_document sets up before it calls feed().
FeedInit ==
    /\ pc = "feed_next"
    /\ pending \in EventLists(MaxPending)
    /\ _tags = ResetTags
    /\ parsed_text = ResetText
    /\ iters = 0 /\ depth0 = 0
    /\ events = <<>> /\ log = <<>> /\ opened = <<>> /\ mark = <<>>
    /\ closed = FALSE /\ wn = TRUE /\ parses = 1 /\ nev = 0 /\ dirty = FALSE
    /\ text = <<>> /\ result = <<>> /\ tokens = <<>>
    /\ words = <<>> /\ max_ = 0 /\ ranking = <<>>

FeedNext ==
    \/ FeedStartTag
    \/ FeedData
    \/ FeedEndTag
    \/ PopMatch
    \/ PopMiss
    \/ PopEmpty
    \/ FeedFinish

\* The interpreter runs the statement it is at: no step waits on anything.
SpecFeed == FeedInit /\ [][FeedNext]_vars /\ WF_vars(FeedNext)

----------------------------------------------------------------------------
(* Properties of the parser *)

Parsing == pc \in {"feeding", "done", "raised"}

\* C1: in every state of a parse the tag stack is non-empty and its bottom
\* frame is the sentinel ("", False); an end-tag whose name is on no open
\* frame leaves the stack equal to [("", False)].
UnmatchedEnd ==
    /\ events # <<>>
    /\ Last(events)[1] = "end"
    /\ \A i \in 1..Len(events) - 1 :
           ~(events[i][1] = "start" /\ events[i][2] = Last(events)[2])

C1_SentinelNeverPopped ==
    Parsing =>
        /\ _tags # <<>>
        /\ _tags[1] = Sentinel
        /\ (UnmatchedEnd => _tags = <<Sentinel>>)

\* C2: no sequence of start-tag, end-tag and data events makes a callback
\* raise an error.
C2_NoErrorState == pc # "raised"

\* The exclusion set as the specification lists it.
ExcludedNames ==
    {"audio", "canvas", "iframe", "noscript", "script", "source", "style",
     "title", "video", "!--"}

Contributes(entry) ==
    /\ Last(entry.stack)[1] \notin ExcludedNames
    /\ Last(entry.stack)[2] = FALSE

RECURSIVE VisibleData(_)
VisibleData(entries) ==
    IF entries = <<>> THEN <<>>
    ELSE (IF Contributes(Head(entries)) THEN Head(entries).data ELSE <<>>)
         \o VisibleData(Tail(entries))

\* C3: parsed_text is the concatenation, in event order and unchanged, of
\* exactly the data events whose top frame at the time was neither excluded
\* nor hidden.
C3_TextIsVisibleData == Parsing => parsed_text = VisibleData(log)

C3_Witness ==
    /\ pc = "done"
    /\ \E i, j, k \in 1..Len(log) :
          /\ i < j
          /\ Contributes(log[i]) /\ Contributes(log[j]) /\ log[i].data # log[j].data
          /\ ~Contributes(log[k])

\* C4: data that arrives while any open frame (top or ancestor) is hidden or
\* excluded is never appended to parsed_text.
C4_NoTextUnderHiddenAncestor ==
    [][(pc = "feeding" /\ \E i \in 1..Len(_tags) : ~IsVisible(_tags[i]))
          => parsed_text' = parsed_text]_vars

\* Parsing an event stream on a fresh instance.
Fresh == [stack |-> InitTags, acc |-> InitText, raised |-> FALSE]

Apply(st, ev) ==
    IF st.raised THEN st
    ELSE IF ev[1] = "start"
         THEN [st EXCEPT !.stack = handle_starttag(st.stack, ev[2], ev[3])]
    ELSE IF ev[1] = "end"
         THEN LET r == handle_endtag(st.stack, ev[2])
              IN [st EXCEPT !.stack = r.stack, !.raised = r.raised]
    ELSE [st EXCEPT !.acc = handle_data(st.stack, st.acc, ev[2])]

RECURSIVE Replay(_, _)
Replay(st, evs) == IF evs = <<>> THEN st ELSE Replay(Apply(st, Head(evs)), Tail(evs))

C6_WellNestedRestoresStack ==
    Parsing =>
        /\ (closed => _tags = mark)
        /\ (wn /\ opened = <<>> => _tags = <<Sentinel>>)

C6_Witness ==
    /\ pc = "done" /\ closed /\ wn
    /\ Len(mark) > 1 /\ mark[2][2] = TRUE
    /\ log # <<>>

\* The stack before the last event of the parse.
StackBefore == Replay(Fresh, Front(events)).stack

HasFrameNamed(stack, tag) == \E i \in 1..Len(stack) : stack[i][1] = tag

TopmostNamed(stack, tag) ==
    CHOOSE k \in 1..Len(stack) :
        /\ stack[k][1] = tag
        /\ \A j \in k + 1..Len(stack) : stack[j][1] # tag

\* C15: handle_endtag(tag) with an open frame named tag removes the topmost
\* such frame and every frame above it, and nothing else: what is left is
\* the part of the stack below that frame, unchanged.
C15_EndTagCutsAtTopmostMatch ==
    [][\A tag \in TagNames :
          (/\ pc = "feeding"
           /\ events' = Append(events, <<"end", tag>>)
           /\ HasFrameNamed(_tags, tag))
          => /\ _tags' = SubSeq(_tags, 1, TopmostNamed(_tags, tag) - 1)
             /\ pc' = "feeding"]_vars

C15_Witness ==
    /\ pc = "feeding"
    /\ events # <<>> /\ Last(events)[1] = "end"
    /\ HasFrameNamed(StackBefore, Last(events)[2])
    /\ TopmostNamed(StackBefore, Last(events)[2]) < Len(StackBefore)
    /\ HasFrameNamed(SubSeq(StackBefore, 1, TopmostNamed(StackBefore, Last(events)[2]) - 1),
                     Last(events)[2])
    /\ Len(_tags) = TopmostNamed(StackBefore, Last(events)[2]) - 1

HasAttrNamed(attrs, name) == \E i \in 1..Len(attrs) : attrs[i][1] = name

\* C16: handle_starttag(tag, attrs) puts exactly one frame (tag, hidden) on
\* top of the unchanged stack, hidden being true exactly when an attribute
\* is named "hidden", whatever its value and the other attributes.
C16_StartTagPushesOneFrame ==
    [][\A tag \in TagNames, attrs \in AttrLists :
          (pc = "feeding" /\ events' = Append(events, <<"start", tag, attrs>>))
          => _tags' = _tags \o << <<tag, HasAttrNamed(attrs, "hidden")>> >>]_vars

C16_Witness ==
    /\ pc = "feeding"
    /\ Len(events) >= 2
    /\ Last(events)[1] = "start"
    /\ HasAttrNamed(Last(events)[3], "hidden")
    /\ \E i \in 1..Len(Last(events)[3]) : Last(events)[3][i] = <<"hidden", "false">>
    /\ Len(_tags) = Len(StackBefore) + 1
    /\ Last(_tags) = <<Last(events)[2], TRUE>>
    /\ \E i \in 1..Len(events) - 1 :
          /\ events[i][1] = "start"
          /\ events[i][3] = << <<"class", "hidden">> >>
          /\ _tags[i + 1][2] = FALSE

IsPrefix(a, b) == Len(a) <= Len(b) /\ SubSeq(b, 1, Len(a)) = a

\* C17: during a parse handle_data leaves the stack alone, handle_starttag
\* and handle_endtag leave parsed_text alone, and in every step the old
\* parsed_text is a prefix of the new one.
C17_FrameEffects ==
    [][(pc = "feeding" /\ events' # events) =>
          /\ (Last(events')[1] = "data" => _tags' = _tags)
          /\ (Last(events')[1] \in {"start", "end"} => parsed_text' = parsed_text)
          /\ IsPrefix(parsed_text, parsed_text')]_vars

C17_Witness ==
    /\ pc = "feeding"
    /\ \E i, j \in 1..Len(log) :
          i < j /\ Contributes(log[i]) /\ Contributes(log[j])
    /\ \E i \in 1..Len(log) : ~Contributes(log[i])
    /\ \E i, j \in 1..Len(events) : events[i][1] = "start" /\ events[j][1] = "end"

Stopped == pc \in {"feed_done", "feed_raised"}

\* C19: every handle_endtag call terminates: each iteration of its loop
\* removes one frame, the loop makes at most as many iterations as the stack
\* had frames when the call began and ends by finding the matching frame or
\* by running out of frames; a parse of a finite event sequence stops.
C19_EndTagLoopTerminates ==
    /\ [](pc \in {"popping", "feed_raised"} =>
             /\ iters <= depth0
             /\ Len(_tags) = depth0 - iters)
    /\ [][pc = "popping" /\ pc' # "popping" =>
             \/ pc' = "feed_next" /\ Last(_tags)[1] = Head(pending)[2]
             \/ pc' = "feed_raised" /\ _tags = <<>> /\ iters = depth0]_vars
    /\ (pc = "popping") ~> (pc # "popping")
    /\ <>Stopped

\* A parse has stopped whose last handle_endtag call found its frame in the
\* third iteration, below two frames of the other name.
C19_Witness ==
    /\ pc = "feed_done"
    /\ depth0 = 4
    /\ iters = 3
    /\ _tags = ResetTags

\* A handle_endtag call ran out of frames after popping all three.
C19_RanOut ==
    /\ pc = "feed_raised"
    /\ depth0 = 3
    /\ iters = 3

----------------------------------------------------------------------------
(* Properties of remove_extra_characters *)

CountOf(t, c) == Cardinality({i \in 1..Len(t) : t[i] = c})

\* Deleting and ellipsis replacement change no position of such a text.
KeepsPositions(t) ==
    /\ "'" \notin Range(t)
    /\ "&" \notin Range(t)
    /\ CountOf(t, ".") < 3

BetweenDigits(t, i) ==
    /\ i > 1 /\ IsDigit(t[i - 1])
    /\ i < Len(t) /\ IsDigit(t[i + 1])

\* C7: a period or comma is kept when the character right before it and the
\* character right after it are both digits, and replaced by one space
\* otherwise, each period or comma judged on its own.
C7_KeptOnlyBetweenDigits ==
    (pc = "text_out" /\ KeepsPositions(text)) =>
        /\ Len(result) = Len(text)
        /\ \A i \in 1..Len(text) :
              text[i] \in {".", ","} =>
                  result[i] = (IF BetweenDigits(text, i) THEN text[i] ELSE " ")

ListedSymbols ==
    {"?", "!", ":", ";", "-", "[", "]", "{", "}", "(", ")", "\"", "\n", "\t"}

HasSub(t, sub) ==
    \E i \in 1..Len(t) :
        i + Len(sub) - 1 <= Len(t) /\ SubSeq(t, i, i + Len(sub) - 1) = sub

\* Positions of t inside an occurrence of "&nbsp;"
InNbsp(t, i) ==
    \E j \in 1..i : i <= j + 5 /\ j + 5 <= Len(t) /\ SubSeq(t, j, j + 5) = NBSP

RECURSIVE Cleaned(_, _)
Cleaned(t, i) ==
    IF i > Len(t) THEN <<>>
    ELSE (IF InNbsp(t, i) \/ t[i] = "'" THEN <<>>
          ELSE IF t[i] \in ListedSymbols THEN <<" ">>
          ELSE <<t[i]>>) \o Cleaned(t, i + 1)

\* C8: the result holds no apostrophe, no "&nbsp;", no listed symbol and no
\* three periods in a row; apostrophes and "&nbsp;" are deleted with nothing
\* put in their place, every other listed symbol becomes exactly one space.
C8_SymbolsRemoved ==
    pc = "text_out" =>
        /\ "'" \notin Range(result)
        /\ Range(result) \cap ListedSymbols = {}
        /\ ~HasSub(result, NBSP)
        /\ ~HasSub(result, <<".", ".", ".">>)
        /\ ("." \notin Range(text) /\ "," \notin Range(text)
                => result = Cleaned(text, 1))

C8_Witness ==
    /\ pc = "text_out"
    /\ HasSub(text, NBSP) /\ "'" \in Range(text)
    /\ Range(text) \cap ListedSymbols # {}
    /\ "." \notin Range(text) /\ "," \notin Range(text)
    /\ result = <<" ">>

\* C18: remove_extra_characters is idempotent: applied to its own result it
\* returns that result unchanged, for every input text.
C18_Idempotent ==
    pc = "text_out" => remove_extra_characters(result) = result

\* The deleted apostrophe joins "&nbs" and "p;" after the "&nbsp;" pass is
\* over; the result holds "&nbsp" followed by the space of the semicolon.
C18_Witness ==
    /\ pc = "text_out"
    /\ ~HasSub(text, NBSP)
    /\ HasSub(Replace(text, <<"'">>, <<>>), NBSP)
    /\ HasSub(result, <<"&", "n", "b", "s", "p", " ">>)

----------------------------------------------------------------------------
(* Properties of find_most_frequent_words *)

\* C9: every distinct token appears at most once in the result, with the
\* number of its occurrences in the input, and consecutive pairs are in
\* order of falling count, equal counts in rising code point order.
C9_RankedPairs ==
    pc = "rank_out" =>
        /\ \A i, j \in 1..Len(ranking) : ranking[i][1] = ranking[j][1] => i = j
        /\ \A i \in 1..Len(ranking) :
              /\ ranking[i][1] \in Range(words)
              /\ ranking[i][2] = Count(words, ranking[i][1])
        /\ \A i \in 1..Len(ranking) - 1 :
              \/ ranking[i][2] > ranking[i + 1][2]
              \/ /\ ranking[i][2] = ranking[i + 1][2]
                 /\ StrLess(ranking[i][1], ranking[i + 1][1])

C9_Witness ==
    /\ pc = "rank_out"
    /\ Len(ranking) = 3
    /\ ranking[1][2] > ranking[2][2]
    /\ ranking[2][2] = ranking[3][2]

\* C10: with max_ <= 0 the result is the empty list.
C10_NonPositiveMaxGivesEmpty ==
    (pc = "rank_out" /\ max_ <= 0) => ranking = <<>>

Distinct(ws) == Cardinality(Range(ws))

RanksBefore(a, b) == a[2] > b[2] \/ (a[2] = b[2] /\ StrLess(a[1], b[1]))

\* C11: with max_ >= 0 the result is the first min(max_, n) entries of the
\* full ranking of the n distinct tokens: never longer than max_, and every
\* token left out ranks after every token kept.
C11_FirstEntriesOfFullRanking ==
    (pc = "rank_out" /\ max_ >= 0) =>
        LET n == Distinct(words)
            full == find_most_frequent_words(words, n)
        IN /\ Len(full) = n
           /\ Len(ranking) = Min(max_, n)
           /\ Len(ranking) <= max_
           /\ ranking = SubSeq(full, 1, Min(max_, n))
           /\ \A w \in Range(words) :
                 (\A i \in 1..Len(ranking) : ranking[i][1] # w) =>
                     \A i \in 1..Len(ranking) :
                         RanksBefore(ranking[i], <<w, Count(words, w)>>)

C11_Witness ==
    /\ pc = "rank_out"
    /\ max_ = 2 /\ Distinct(words) = 4
    /\ Len(ranking) = 2

Swap(ws, i) == [ws EXCEPT ![i] = ws[i + 1], ![i + 1] = ws[i]]

\* C12: the result is the same for every order of the input tokens:
\* exchanging two neighbouring tokens changes nothing (every permutation is
\* a chain of such exchanges, and every token list is covered).
C12_OrderOfTokensIrrelevant ==
    pc = "rank_out" =>
        \A i \in 1..Len(words) - 1 :
            find_most_frequent_words(Swap(words, i), max_) = ranking

C12_Witness ==
    /\ pc = "rank_out"
    /\ Len(words) = 4 /\ Len(ranking) >= 2
    /\ words[1] # words[2]
    /\ Count(words, words[1]) = Count(words, words[2])
    /\ StrLess(words[2], words[1])

----------------------------------------------------------------------------
(* Properties of tokenize *)

Blank(c) == c \in {" ", "\t", "\n"}

\* Positions where a maximal whitespace-free run of t begins, and its end.
RunStarts(t) ==
    {i \in 1..Len(t) : ~Blank(t[i]) /\ (i = 1 \/ Blank(t[i - 1]))}

RunEnd(t, i) ==
    CHOOSE j \in i..Len(t) :
        /\ \A k \in i..j : ~Blank(t[k])
        /\ (j = Len(t) \/ Blank(t[j + 1]))

RunNumber(t, i) == Cardinality({j \in RunStarts(t) : j <= i})

Lowered(c) == IF c = "A" THEN "a" ELSE c

\* C13: the tokens are the maximal whitespace-free runs of the text, in
\* their order and with duplicates, each in lowercase; no token is empty or
\* holds whitespace; an empty or whitespace-only text gives the empty list.
C13_TokensAreLoweredRuns ==
    pc = "tok_out" =>
        /\ Len(tokens) = Cardinality(RunStarts(text))
        /\ \A i \in RunStarts(text) :
              LET run == SubSeq(text, i, RunEnd(text, i))
              IN tokens[RunNumber(text, i)] = [k \in 1..Len(run) |-> Lowered(run[k])]
        /\ \A i \in 1..Len(tokens) :
              /\ tokens[i] # <<>>
              /\ \A k \in 1..Len(tokens[i]) :
                    ~Blank(tokens[i][k]) /\ tokens[i][k] # "A"
        /\ ((\A i \in 1..Len(text) : Blank(text[i])) => tokens = <<>>)

C13_Witness ==
    /\ pc = "tok_out"
    /\ Len(tokens) = 2 /\ tokens[1] = tokens[2]
    /\ "A" \in Range(text)
    /\ Blank(text[1])
    /\ \E i \in 1..Len(text) - 1 : Blank(text[i]) /\ Blank(text[i + 1])

----------------------------------------------------------------------------
(* Properties of the stages of run *)

\* C14: empty input gives empty output at every stage: an empty document
\* gives parsed_text "", the empty text is cleaned to the empty text and
\* tokenized to [], and the empty token list is ranked to [] for every max_.
C14_EmptyInEmptyOut ==
    /\ (pc \in {"done", "run_text", "run_words", "run_done"} /\ events = <<>>
            => parsed_text = <<>>)
    /\ (pc \in {"run_text", "run_words", "run_done"} /\ text = <<>>
            => result = <<>>)
    /\ (pc \in {"run_words", "run_done"} /\ result = <<>> => tokens = <<>>)
    /\ (pc = "run_done" /\ words = <<>> => ranking = <<>>)
    /\ \A m \in (0 - MaxBelow)..MaxAbove : find_most_frequent_words(<<>>, m) = <<>>

C14_Witness ==
    /\ pc = "run_done"
    /\ parses = 2 /\ dirty
    /\ events = <<>>
    /\ text = <<>> /\ result = <<>> /\ tokens = <<>> /\ ranking = <<>>

====
